---- MODULE Spec2Model ----
(***************************************************************************)
(* tokman: a cache of GitHub-App installation access tokens, one row per   *)
(* repository, renewed on request when the cached token is about to lapse. *)
(* Model of src/tokman/app.py.                                             *)
(*                                                                         *)
(* Every request runs in its own SQLAlchemy session and database           *)
(* transaction (READ COMMITTED): the row is read once at the query, the    *)
(* pending INSERT or UPDATE is flushed at db.session.commit(), where the   *)
(* database checks the unique constraints of the table against the         *)
(* committed rows.  A request that returns or raises before the commit     *)
(* leaves its session to be rolled back.                                   *)
(* Times are whole seconds.                                                *)
(***************************************************************************)
EXTENDS Integers, FiniteSets, Sequences, TLC

\* ---------------------------------------------------------------- bounds
NumProcs == 2
MaxRequests == 2
MaxTicks == 2
TokenLifetime == 3600

\* ------------------------------------------------------ program constants
DefaultRenewAt == 60
SecondsPerDay == 86400

\* ------------------------------------------------------------- value sets
Procs == 1..NumProcs
Namespaces == {"n1", "n2"}
Repositories == {"r1", "r2"}
TokenStrings == {"t1", "t2"}
\* how far the clock moves between two steps
TickSteps == {10, TokenLifetime - DefaultRenewAt}

\* Python's None for a string column, and for a DateTime column
None == "None"
NoTime == <<>>
At(t) == <<t>>

VARIABLES
    db,              \* the committed rows of table "tokens"
    now,             \* datetime.utcnow(), in seconds
    ticks,           \* number of clock steps taken
    started,         \* number of requests started
    token_renew_at,  \* the global set by create_app
    pc,              \* pc[p]: where request p is in AccessToken.get
    ns,              \* ns[p], repo[p]: the arguments of request p
    repo,
    obj,             \* obj[p]: the Token object of p's session (current attributes)
    loaded,          \* loaded[p]: the attributes as loaded (id 0: pending, not in the table)
    expired,         \* expired[p]: what is_expired returned to p, in this request
    minted,          \* minted[p]: p has called get_access_token, in this request
    resp,            \* resp[p]: the response of p
    q_rec,           \* is_expired on its own: the record,
    q_now,           \*   the current time,
    q_pc,            \*   "input" or "evaluated",
    q_res,           \*   and the value returned
    health           \* the last response of /api/health

reqvars == <<pc, ns, repo, obj, loaded, expired, minted, resp>>
purevars == <<q_rec, q_now, q_pc, q_res>>
vars == <<db, now, ticks, started, token_renew_at, pc, ns, repo, obj, loaded,
          expired, minted, resp, q_rec, q_now, q_pc, q_res, health>>

\* ------------------------------------------------------------ Token model

\* timedelta.seconds: the seconds field of the normalised timedelta
\* (days, seconds, microseconds), 0 <= seconds < 86400, the days left out
TimedeltaSeconds(d) == d % SecondsPerDay

\* is_expired without the test of the token
is_expired_no_token_test(rec, t, renew_at) ==
    \/ rec.expires_at = NoTime
    \/ TimedeltaSeconds(rec.expires_at[1] - t) < renew_at

\* Token.is_expired
is_expired(rec, t, renew_at) ==
    \/ rec.expires_at = NoTime
    \/ rec.token = None
    \/ TimedeltaSeconds(rec.expires_at[1] - t) < renew_at

\* Token(namespace=..., repository=...): token and expires_at default to None
NewToken == [id |-> 0, token |-> None, expires_at |-> NoTime]

Row(i, n, r, o) ==
    [id |-> i, namespace |-> n, repository |-> r,
     token |-> o.token, expires_at |-> o.expires_at]

\* a table whose token column is not unique
UniqueButToken(rows) ==
    \A r1, r2 \in rows :
        r1 # r2 =>
            /\ r1.id # r2.id
            /\ r1.namespace # r2.namespace
            /\ r1.repository # r2.repository

\* a table whose only constraints are the primary key and the unique token
UniqueIdAndToken(rows) ==
    \A r1, r2 \in rows :
        r1 # r2 =>
            /\ r1.id # r2.id
            /\ (r1.token = None \/ r1.token # r2.token)

\* the constraints of the table: primary key id, unique=True on namespace,
\* on repository and on token (NULLs never collide)
Unique(rows) ==
    \A r1, r2 \in rows :
        r1 # r2 =>
            /\ r1.id # r2.id
            /\ r1.namespace # r2.namespace
            /\ r1.repository # r2.repository
            /\ (r1.token = None \/ r1.token # r2.token)

\* Token.query.filter_by(namespace=, repository=).first()
QueryFirst(n, r) ==
    LET hits == {row \in db : row.namespace = n /\ row.repository = r}
    IN  IF hits = {} THEN NewToken
        ELSE LET row == CHOOSE h \in hits : \A g \in hits : h.id <= g.id
             IN  [id |-> row.id, token |-> row.token, expires_at |-> row.expires_at]

\* an assignment that keeps the token and drops the expiry
AssignTokenOnly(o, t, e) == [o EXCEPT !.token = t]

\* token.token, token.expires_at = get_token(...)
AssignResult(o, t, e) == [o EXCEPT !.token = t, !.expires_at = At(e)]

\* the rows after the flush of p's session: INSERT of a pending object, or
\* UPDATE ... WHERE id = ? of the columns whose value differs from the loaded one
Flushed(p) ==
    IF loaded[p].id = 0
    THEN db \cup {Row(Cardinality(db) + 1, ns[p], repo[p], obj[p])}
    ELSE {IF row.id = loaded[p].id
          THEN [row EXCEPT
                  !.token = IF obj[p].token # loaded[p].token
                            THEN obj[p].token ELSE @,
                  !.expires_at = IF obj[p].expires_at # loaded[p].expires_at
                                 THEN obj[p].expires_at ELSE @]
          ELSE row : row \in db}

NoResp == [status |-> 0, access_token |-> None, error |-> "none"]
NoProbe == [method |-> "none", status |-> 0, body |-> ""]

\* ------------------------------------------------------------------ Init
InitPure ==
    /\ q_rec = [token |-> None, expires_at |-> NoTime]
    /\ q_now = 0
    /\ q_pc = "input"
    /\ q_res = FALSE

InitReq ==
    /\ db = {}
    /\ now = 0
    /\ ticks = 0
    /\ started = 0
    /\ pc = [p \in Procs |-> "idle"]
    /\ ns = [p \in Procs |-> "n1"]
    /\ repo = [p \in Procs |-> "r1"]
    /\ obj = [p \in Procs |-> NewToken]
    /\ loaded = [p \in Procs |-> NewToken]
    /\ expired = [p \in Procs |-> "unknown"]
    /\ minted = [p \in Procs |-> FALSE]
    /\ resp = [p \in Procs |-> NoResp]

Init ==
    /\ InitReq
    /\ token_renew_at = DefaultRenewAt
    /\ InitPure
    /\ health = NoProbe

\* --------------------------------------------------------------- actions

\* the request is over: its session, and the objects in it, are discarded
\* (what was not committed is rolled back)
SessionRemoved(p) ==
    /\ obj' = [obj EXCEPT ![p] = NewToken]
    /\ loaded' = [loaded EXCEPT ![p] = NewToken]
    /\ expired' = [expired EXCEPT ![p] = "unknown"]
    /\ minted' = [minted EXCEPT ![p] = FALSE]

\* time passes
Tick ==
    /\ ticks < MaxTicks
    /\ \E d \in TickSteps : now' = now + d
    /\ ticks' = ticks + 1
    /\ UNCHANGED <<db, started, token_renew_at, reqvars, purevars, health>>

\* AccessToken.get, the query and the creation of the missing record.
\* The workers are interchangeable: one that never served a request takes one
\* only when the workers before it have.
Query(p) ==
    /\ pc[p] \in {"idle", "done"}
    /\ \A q \in Procs : q < p => pc[q] # "idle"
    /\ started < MaxRequests
    /\ started' = started + 1
    /\ \E n \in Namespaces, r \in Repositories :
        /\ ns' = [ns EXCEPT ![p] = n]
        /\ repo' = [repo EXCEPT ![p] = r]
        /\ obj' = [obj EXCEPT ![p] = QueryFirst(n, r)]
        /\ loaded' = [loaded EXCEPT ![p] = QueryFirst(n, r)]
    /\ resp' = [resp EXCEPT ![p] = NoResp]
    /\ pc' = [pc EXCEPT ![p] = "queried"]
    /\ UNCHANGED <<db, now, ticks, token_renew_at, expired, minted, purevars, health>>

\* a handler that calls get_token whatever is_expired returns
CheckExpiredAlwaysRenews(p) ==
    /\ pc[p] = "queried"
    /\ expired' = [expired EXCEPT ![p] =
                     IF is_expired(obj[p], now, token_renew_at) THEN "yes" ELSE "no"]
    /\ pc' = [pc EXCEPT ![p] = "get_installation"]
    /\ UNCHANGED <<db, now, ticks, started, token_renew_at, ns, repo, obj,
                   loaded, minted, resp, purevars, health>>

\* if token.is_expired(): enter get_token, else go on to the commit
CheckExpired(p) ==
    /\ pc[p] = "queried"
    /\ IF is_expired(obj[p], now, token_renew_at)
       THEN /\ expired' = [expired EXCEPT ![p] = "yes"]
            /\ pc' = [pc EXCEPT ![p] = "get_installation"]
       ELSE /\ expired' = [expired EXCEPT ![p] = "no"]
            /\ pc' = [pc EXCEPT ![p] = "commit"]
    /\ UNCHANGED <<db, now, ticks, started, token_renew_at, ns, repo, obj,
                   loaded, minted, resp, purevars, health>>

\* get_token: get_installation returns an installation id
Installed(p) ==
    /\ pc[p] = "get_installation"
    /\ pc' = [pc EXCEPT ![p] = "get_access_token"]
    /\ minted' = [minted EXCEPT ![p] = TRUE]
    /\ UNCHANGED <<db, now, ticks, started, token_renew_at, ns, repo, obj,
                   loaded, expired, resp, purevars, health>>

\* a handler that commits the session before it returns the 400
NotInstalledCommits(p) ==
    /\ pc[p] = "get_installation"
    /\ pc' = [pc EXCEPT ![p] = "done"]
    /\ resp' = [resp EXCEPT ![p] =
                  [status |-> 400, access_token |-> None, error |-> "AppNotInstalledError"]]
    /\ db' = IF Unique(Flushed(p)) THEN Flushed(p) ELSE db
    /\ SessionRemoved(p)
    /\ UNCHANGED <<now, ticks, started, token_renew_at, ns, repo, purevars, health>>

\* get_token: no installation id, AppNotInstalledError, caught: 400
NotInstalled(p) ==
    /\ pc[p] = "get_installation"
    /\ pc' = [pc EXCEPT ![p] = "done"]
    /\ resp' = [resp EXCEPT ![p] =
                  [status |-> 400, access_token |-> None, error |-> "AppNotInstalledError"]]
    /\ SessionRemoved(p)
    /\ UNCHANGED <<db, now, ticks, started, token_renew_at, ns, repo, purevars, health>>

\* a handler that swallows the issuer's exception and goes on to the commit
IssuerRaisesSwallowed(p) ==
    /\ pc[p] \in {"get_installation", "get_access_token"}
    /\ pc' = [pc EXCEPT ![p] = "commit"]
    /\ UNCHANGED <<db, now, ticks, started, token_renew_at, ns, repo, obj,
                   loaded, expired, minted, resp, purevars, health>>

\* a handler that commits the session when the issuer raises
IssuerRaisesCommits(p) ==
    /\ pc[p] \in {"get_installation", "get_access_token"}
    /\ pc' = [pc EXCEPT ![p] = "done"]
    /\ resp' = [resp EXCEPT ![p] =
                  [status |-> 500, access_token |-> None, error |-> "IssuerError"]]
    /\ db' = IF Unique(Flushed(p)) THEN Flushed(p) ELSE db
    /\ SessionRemoved(p)
    /\ UNCHANGED <<now, ticks, started, token_renew_at, ns, repo, purevars, health>>

\* get_installation or get_access_token raises anything else: not caught
IssuerRaises(p) ==
    /\ pc[p] \in {"get_installation", "get_access_token"}
    /\ pc' = [pc EXCEPT ![p] = "done"]
    /\ resp' = [resp EXCEPT ![p] =
                  [status |-> 500, access_token |-> None, error |-> "IssuerError"]]
    /\ SessionRemoved(p)
    /\ UNCHANGED <<db, now, ticks, started, token_renew_at, ns, repo, purevars, health>>

\* get_access_token returns (token, expires_at); both are assigned
Minted(p) ==
    /\ pc[p] = "get_access_token"
    /\ \E t \in TokenStrings :
        obj' = [obj EXCEPT ![p] = AssignResult(obj[p], t, now + TokenLifetime)]
    /\ pc' = [pc EXCEPT ![p] = "commit"]
    /\ UNCHANGED <<db, now, ticks, started, token_renew_at, ns, repo,
                   loaded, expired, minted, resp, purevars, health>>

\* db.session.commit() and the response; token.token is read back from the
\* table, the commit having expired the object's attributes
Commit(p) ==
    /\ pc[p] = "commit"
    /\ pc' = [pc EXCEPT ![p] = "done"]
    /\ IF Unique(Flushed(p))
       THEN /\ db' = Flushed(p)
            /\ LET rid == IF loaded[p].id = 0 THEN Cardinality(db) + 1
                          ELSE loaded[p].id
                   row == CHOOSE x \in Flushed(p) : x.id = rid
               IN  resp' = [resp EXCEPT ![p] =
                      [status |-> 200, access_token |-> row.token, error |-> "none"]]
       ELSE /\ db' = db
            /\ resp' = [resp EXCEPT ![p] =
                  [status |-> 500, access_token |-> None,
                   error |-> IF loaded[p].id = 0 THEN "IntegrityError: INSERT"
                             ELSE "IntegrityError: UPDATE"]]
    /\ SessionRemoved(p)
    /\ UNCHANGED <<now, ticks, started, token_renew_at, ns, repo, purevars, health>>

Next ==
    \/ Tick
    \/ \E p \in Procs : Query(p)
    \/ \E p \in Procs : CheckExpired(p)
    \/ \E p \in Procs : Installed(p)
    \/ \E p \in Procs : NotInstalled(p)
    \/ \E p \in Procs : IssuerRaises(p)
    \/ \E p \in Procs : Minted(p)
    \/ \E p \in Procs : Commit(p)

Spec == Init /\ [][Next]_vars

\* ------------------------------------------- Token.is_expired on its own
\* the records and times is_expired is applied to: expires_at on both sides
\* of the current time and of the threshold, less and more than a day away
PureOffsets == {0 - SecondsPerDay - 10, 0 - SecondsPerDay, 0 - TokenLifetime, -10, -1,
                0, 1, DefaultRenewAt - 1, DefaultRenewAt, DefaultRenewAt + 1,
                TokenLifetime, SecondsPerDay - 1, SecondsPerDay,
                SecondsPerDay + 10, SecondsPerDay + DefaultRenewAt}
PureNows == {0, 100000}
RenewChoices == {0, 1, DefaultRenewAt, TokenLifetime, SecondsPerDay}

InitIsExpired ==
    /\ InitReq
    /\ token_renew_at \in RenewChoices
    /\ q_now \in PureNows
    /\ q_rec \in [token : TokenStrings \cup {None},
                  expires_at : {NoTime} \cup {At(q_now + d) : d \in PureOffsets}]
    /\ q_pc = "input"
    /\ q_res = FALSE
    /\ health = NoProbe

CallIsExpired ==
    /\ q_pc = "input"
    /\ q_res' = is_expired(q_rec, q_now, token_renew_at)
    /\ q_pc' = "evaluated"
    /\ UNCHANGED <<db, now, ticks, started, token_renew_at, reqvars, q_rec, q_now,
                   health>>

NextIsExpired == CallIsExpired

SpecIsExpired == InitIsExpired /\ [][NextIsExpired]_vars

\* ---------------------------------------------------------------- claims

InIssuer(p) == pc[p] \in {"get_installation", "get_access_token"}
InFlight(p) == pc[p] \notin {"idle", "done"}
SameKey(p, q) == ns[p] = ns[q] /\ repo[p] = repo[q]
HasToken(o) == o.token # None /\ o.expires_at # NoTime
\* p takes the step that evaluates is_expired
Checks(p) == pc[p] = "queried" /\ pc'[p] # "queried"
\* p takes the step that ends its request
Ends(p) == pc[p] # "done" /\ pc'[p] = "done"

\* C1: for every key, at most one request for that key is inside get_token
\* (a call to the issuer in flight) at any moment.
SingleFlight ==
    \A p, q \in Procs :
        (InIssuer(p) /\ InIssuer(q) /\ SameKey(p, q)) => p = q

\* C2: of the requests for one key that run at the same time and found the
\* record expired or absent, only one calls get_access_token.
MintedOnce ==
    \A p, q \in Procs :
        (/\ p # q /\ SameKey(p, q) /\ InFlight(p) /\ InFlight(q)
         /\ expired[p] = "yes" /\ expired[q] = "yes")
        => ~(minted[p] /\ minted[q])

\* C3: for a record with token and expires_at, is_expired returns false exactly
\* when expires_at - now >= the renew threshold, for every signed difference.
IsExpiredIffBelowThreshold ==
    (q_pc = "evaluated" /\ HasToken(q_rec))
    => (q_res = FALSE <=> q_rec.expires_at[1] - q_now >= token_renew_at)

\* C4: for a record whose expires_at or whose token is absent, is_expired
\* returns true, whatever the time and the threshold.
AbsentIsExpired ==
    (q_pc = "evaluated" /\ (q_rec.expires_at = NoTime \/ q_rec.token = None))
    => q_res = TRUE

\* C4 witness: is_expired was called on a record without token whose expiry
\* is further away than the threshold.
AbsentTokenEvaluated ==
    /\ q_pc = "evaluated"
    /\ q_rec.token = None
    /\ q_rec.expires_at # NoTime
    /\ q_rec.expires_at[1] - q_now >= token_renew_at
    /\ TimedeltaSeconds(q_rec.expires_at[1] - q_now) >= token_renew_at
    /\ q_res = TRUE

\* C5: a request that finds a stored token that has lapsed, or is within the
\* threshold of lapsing, calls the issuer and never serves the stored token.
LapsedNeverServed ==
    [][\A p \in Procs :
        (/\ Checks(p) /\ HasToken(obj[p])
         /\ obj[p].expires_at[1] - now < token_renew_at)
        => pc'[p] = "get_installation"]_vars

\* C6: the committed table holds at most one row per (namespace, repository).
UniquePair ==
    \A r1, r2 \in db :
        (r1.namespace = r2.namespace /\ r1.repository = r2.repository) => r1 = r2

\* C6 witness: two requests, the only ones so far, both created the record of
\* the same unseen pair; one committed it and the INSERT of the other failed.
ConcurrentCreate ==
    /\ started = 2
    /\ \E p, q \in Procs :
        /\ p # q /\ SameKey(p, q)
        /\ resp[p].status = 200
        /\ resp[q].error = "IntegrityError: INSERT"
        /\ \E row \in db : row.namespace = ns[p] /\ row.repository = repo[p]

\* C7: a commit fails only over a row of the request's own pair or over the
\* token of another row; never over a row of another pair that shares the
\* namespace or the repository name.
PairsIndependent ==
    [][\A p \in Procs :
        (pc[p] = "commit" /\ resp'[p].status = 500)
        => \/ /\ loaded[p].id = 0
              /\ \E row \in db : row.namespace = ns[p] /\ row.repository = repo[p]
           \/ /\ obj[p].token # None
              /\ \E row \in db : row.id # loaded[p].id /\ row.token = obj[p].token]_vars

\* C8: the step that reports no installation returns 400 from a request that
\* never called get_access_token, and leaves the table as it is; the table is
\* written only by the commit of a request that returns 200.
NotInstalledLeavesStore ==
    [][/\ \A p \in Procs :
            (Ends(p) /\ resp'[p].status = 400)
            => (db' = db /\ ~minted[p] /\ pc[p] = "get_installation")
       /\ db' # db => \E p \in Procs :
            pc[p] = "commit" /\ Ends(p) /\ resp'[p].status = 200]_vars

\* C8 witness: a request for a pair that has a row was answered 400.
NotInstalledOnStoredKey ==
    \E p \in Procs :
        /\ pc[p] = "done" /\ resp[p].status = 400
        /\ \E row \in db : row.namespace = ns[p] /\ row.repository = repo[p]

\* C9: in every committed row token and expires_at are both present or both
\* absent.
TokenAndExpiryTogether ==
    \A row \in db : (row.token = None) <=> (row.expires_at = NoTime)

\* C9 witness: a row with a token is stored, and a later request for its
\* pair has failed in the issuer.
StoredAmongFailures ==
    \E p \in Procs :
        /\ pc[p] = "done" /\ resp[p].error = "IssuerError"
        /\ \E row \in db :
            /\ row.namespace = ns[p] /\ row.repository = repo[p]
            /\ row.token # None /\ row.expires_at # NoTime

\* C10: a request that finds a stored token with remaining lifetime >= the
\* threshold makes no issuer call and returns the stored token; one that finds
\* it below the threshold calls the issuer.
CachedUntilThreshold ==
    [][\A p \in Procs :
        /\ (Checks(p) /\ HasToken(obj[p]))
           => IF obj[p].expires_at[1] - now >= token_renew_at
              THEN pc'[p] = "commit"
              ELSE pc'[p] = "get_installation"
        /\ (pc[p] = "commit" /\ expired[p] = "no" /\ Ends(p))
           => (~minted[p] /\ resp'[p].status = 200)]_vars

Keys(rows) == {<<row.namespace, row.repository>> : row \in rows}
HasRow(rows, p) == <<ns[p], repo[p]>> \in Keys(rows)

\* C11: when a request ends, whatever its outcome, the table holds a row for
\* its pair; and the set of stored pairs never shrinks.
RecordCreatedAndKept ==
    [][/\ \A p \in Procs : Ends(p) => HasRow(db', p)
       /\ Keys(db) \subseteq Keys(db')]_vars

\* C12: a request that ends in a failure of the issuer other than
\* not-installed ends inside get_token, leaves the table as it is and leaves
\* nothing of its session behind; no step of a request before its commit
\* writes the table.
FailureCommitsNothing ==
    [][\A p \in Procs :
        /\ (Ends(p) /\ resp'[p].error = "IssuerError")
           => (InIssuer(p) /\ db' = db /\ obj'[p] = NewToken /\ loaded'[p] = NewToken)
        /\ (pc'[p] # pc[p] /\ pc[p] # "commit") => db' = db]_vars

\* C12 witness: a request for a pair that was never stored has failed in the
\* issuer, and the pair is still not stored.
FailedOnUnseenKey ==
    \E p \in Procs :
        /\ pc[p] = "done" /\ resp[p].error = "IssuerError"
        /\ ~HasRow(db, p)

\* C13: when a request that found its record expired gets (t, e) from the
\* issuer, it ends with the row of its pair holding token t and expires_at e,
\* and answers 200 with access_token t.
MintedIsStoredAndReturned ==
    [][\A p \in Procs :
        (pc[p] = "commit" /\ expired[p] = "yes" /\ Ends(p))
        => /\ resp'[p].status = 200
           /\ resp'[p].access_token = obj[p].token
           /\ \E row \in db' :
                /\ row.namespace = ns[p] /\ row.repository = repo[p]
                /\ row.token = obj[p].token
                /\ row.expires_at = obj[p].expires_at]_vars

\* C14: a call to the issuer begins only inside a request, for the pair of
\* that request, right after that request has evaluated is_expired as true:
\* get_installation follows the check, get_access_token follows
\* get_installation, and neither is ever entered by a request that found its
\* record not expired.
RenewalIsReactive ==
    [][\A p \in Procs :
        /\ (pc'[p] = "get_installation" /\ pc[p] # "get_installation")
           => (pc[p] = "queried" /\ expired'[p] = "yes"
               /\ is_expired(obj[p], now, token_renew_at))
        /\ (pc'[p] = "get_access_token" /\ pc[p] # "get_access_token")
           => (pc[p] = "get_installation" /\ expired[p] = "yes")
        /\ (minted'[p] /\ ~minted[p]) => expired[p] = "yes"
        /\ InIssuer(p) => (ns'[p] = ns[p] /\ repo'[p] = repo[p])]_vars

\* C14 witness: a request that found the stored record of its pair expired is
\* inside get_access_token.
RenewingStoredRecord ==
    \E p \in Procs :
        /\ pc[p] = "get_access_token" /\ expired[p] = "yes"
        /\ loaded[p].id # 0 /\ HasToken(loaded[p])

\* C15: a request enters get_installation at most once and get_access_token
\* at most once; it leaves the issuer either with the pair the issuer minted
\* or by ending without success, and only a commit answers 200.
NoRetryNoStaleSuccess ==
    [][\A p \in Procs :
        /\ (pc'[p] = "get_installation" /\ pc[p] # "get_installation")
           => pc[p] = "queried"
        /\ (pc'[p] = "get_access_token" /\ pc[p] # "get_access_token")
           => (pc[p] = "get_installation" /\ ~minted[p])
        /\ (InIssuer(p) /\ pc'[p] # pc[p] /\ pc'[p] # "get_access_token")
           => \/ /\ pc'[p] = "done"
                 /\ resp'[p].status \in {400, 500}
                 /\ resp'[p].access_token = None
              \/ /\ pc[p] = "get_access_token" /\ pc'[p] = "commit"
                 /\ obj'[p].token \in TokenStrings
                 /\ obj'[p].expires_at = At(now + TokenLifetime)
        /\ (Ends(p) /\ resp'[p].status = 200) => pc[p] = "commit"]_vars

\* C15 witness: a request has failed in the issuer with a 500 and no token,
\* while the row of its pair holds a token that has not lapsed yet.
TransientFailureSurfaced ==
    \E p \in Procs :
        /\ pc[p] = "done" /\ resp[p].status = 500
        /\ resp[p].error = "IssuerError" /\ resp[p].access_token = None
        /\ \E row \in db :
            /\ row.namespace = ns[p] /\ row.repository = repo[p]
            /\ row.token # None /\ row.expires_at # NoTime
            /\ row.expires_at[1] > now

\* C16: the commit of a request that found its record not expired writes
\* nothing: the flush leaves every row as it is.
NotExpiredCommitIsNoOp ==
    [][\A p \in Procs :
        (pc[p] = "commit" /\ expired[p] = "no" /\ Ends(p))
        => (Flushed(p) = db /\ db' = db)]_vars

\* C16 witness: with the clock at its start, two requests for one pair have
\* both been answered 200 with the same token and the table holds one row:
\* the second found the record not expired and served it.
ServedFromCache ==
    /\ ticks = 0 /\ started = 2 /\ Cardinality(db) = 1
    /\ \E p, q \in Procs :
        /\ p # q /\ SameKey(p, q) /\ HasRow(db, p)
        /\ pc[p] = "done" /\ pc[q] = "done"
        /\ resp[p].status = 200 /\ resp[q].status = 200
        /\ resp[p].access_token = resp[q].access_token

\* ------------------------------------- the service over a persisted table
\* The table outlives the process: the service starts with the row a request
\* for n1/r1 stored TokenLifetime - DefaultRenewAt + 10 seconds ago, which now
\* has less than the threshold left.
StoredAtStart == Row(1, "n1", "r1", AssignResult(NewToken, "t1", TokenLifetime))

InitRestart ==
    /\ db = {StoredAtStart}
    /\ now = TokenLifetime - DefaultRenewAt + 10
    /\ ticks = 0
    /\ started = 0
    /\ pc = [p \in Procs |-> "idle"]
    /\ ns = [p \in Procs |-> "n1"]
    /\ repo = [p \in Procs |-> "r1"]
    /\ obj = [p \in Procs |-> NewToken]
    /\ loaded = [p \in Procs |-> NewToken]
    /\ expired = [p \in Procs |-> "unknown"]
    /\ minted = [p \in Procs |-> FALSE]
    /\ resp = [p \in Procs |-> NoResp]
    /\ token_renew_at = DefaultRenewAt
    /\ InitPure
    /\ health = NoProbe

SpecRestart == InitRestart /\ [][Next]_vars

\* C17: the expires_at committed for a row never moves backwards from one
\* committed state to the next (the issuer's expiries never decrease).
ExpiryNeverMovesBack ==
    [][\A r1 \in db, r2 \in db' :
        (r1.id = r2.id /\ r1.expires_at # NoTime /\ r2.expires_at # NoTime)
        => r2.expires_at[1] >= r1.expires_at[1]]_vars

\* C18: no two committed rows hold the same token, rows without a token
\* aside.
TokenColumnUnique ==
    \A r1, r2 \in db :
        (r1 # r2 /\ r1.token # None) => r1.token # r2.token

\* C18 witness: the INSERT of a request failed although no stored row has its
\* namespace or its repository: the token it was given is the token of
\* another pair's row, and the request committed nothing.
TokenCollisionRejected ==
    \E p \in Procs :
        /\ pc[p] = "done" /\ resp[p].error = "IntegrityError: INSERT"
        /\ db # {}
        /\ \A row \in db : row.namespace # ns[p] /\ row.repository # repo[p]

\* ------------------------------------------------------- the health probe
\* a probe that leaves a row in the table
HealthGetWritesProbe ==
    /\ started < MaxRequests
    /\ started' = started + 1
    /\ health' = [method |-> "GET", status |-> 200, body |-> "{message: ok}"]
    /\ db' = db \cup {Row(Cardinality(db) + 1, "health", "health", NewToken)}
    /\ UNCHANGED <<now, ticks, token_renew_at, reqvars, purevars>>

\* Health.get: return {"message": "ok"}
HealthGet ==
    /\ started < MaxRequests
    /\ started' = started + 1
    /\ health' = [method |-> "GET", status |-> 200, body |-> "{message: ok}"]
    /\ UNCHANGED <<db, now, ticks, token_renew_at, reqvars, purevars>>

\* Health.head: pass
HealthHead ==
    /\ started < MaxRequests
    /\ started' = started + 1
    /\ health' = [method |-> "HEAD", status |-> 200, body |-> ""]
    /\ UNCHANGED <<db, now, ticks, token_renew_at, reqvars, purevars>>

NextHealth ==
    \/ Next
    \/ HealthGet
    \/ HealthHead

SpecHealth == Init /\ [][NextHealth]_vars

Probed == health' # health \/ (started' # started /\ pc' = pc)

\* C19: a health probe, GET or HEAD, answers 200, starts no issuer call and
\* leaves the table and every request in progress as they are; no step of a
\* token request touches the probe's response.
HealthProbeIsInert ==
    [][/\ Probed => /\ health'.status = 200
                    /\ health'.method \in {"GET", "HEAD"}
                    /\ health'.method = "GET" => health'.body = "{message: ok}"
                    /\ health'.method = "HEAD" => health'.body = ""
                    /\ db' = db
                    /\ UNCHANGED reqvars
       /\ (\E p \in Procs : pc'[p] # pc[p]) => health' = health]_vars

\* C19 witness: the probe has been answered while a token request is inside
\* get_token.
ProbedDuringIssuerCall ==
    /\ health.status = 200
    /\ \E p \in Procs : InIssuer(p)

====
